---- MODULE Spec2Model ----
(***************************************************************************)
(* A model of dn_ds_analysis.py: header parsing and country               *)
(* normalisation, the sequence filter, pairwise task generation, the      *)
(* worker pool around KaKs_Calculator, and the aggregation into the       *)
(* symmetric country table.                                               *)
(*                                                                         *)
(* Python strings that the code takes apart (headers, raw country tokens, *)
(* nucleotide sequences) are sequences of one-character strings.  Names   *)
(* that the code only compares and passes on (canonical country names,    *)
(* continents) are TLA+ strings.                                          *)
(***************************************************************************)
EXTENDS Integers, Sequences, FiniteSets, TLC

VARIABLES
    \* parse_header applied to one header
    header, parsed,
    \* process_sequence applied to one sequence
    rawSeq, start, stop, trimmed,
    \* main()
    pc, installed, records, tasks,
    status, outcome, calls, results, rows, csvWrites, fastaWrites

hvars == <<header, parsed>>
svars == <<rawSeq, start, stop, trimmed>>
mvars == <<pc, installed, records, tasks,
           status, outcome, calls, results, rows, csvWrites, fastaWrites>>
vars == <<header, parsed, rawSeq, start, stop, trimmed, pc, installed,
          records, tasks, status, outcome, calls,
          results, rows, csvWrites, fastaWrites>>

-----------------------------------------------------------------------------
(* Python values *)

\* Python's None where a string is expected (raw_country = None).
None == <<"<None>">>

\* An optional number (year, start, stop): <<>> is None, <<n>> the number n.
NoInt == <<>>

LowerChars ==
    <<"a","b","c","d","e","f","g","h","i","j","k","l","m",
      "n","o","p","q","r","s","t","u","v","w","x","y","z">>
UpperChars ==
    <<"A","B","C","D","E","F","G","H","I","J","K","L","M",
      "N","O","P","Q","R","S","T","U","V","W","X","Y","Z">>
DigitChars == <<"0","1","2","3","4","5","6","7","8","9">>

Range(s) == {s[i] : i \in DOMAIN s}
IndexOf(c, s) == CHOOSE i \in DOMAIN s : s[i] = c
IsLowerChar(c) == c \in Range(LowerChars)
IsUpperChar(c) == c \in Range(UpperChars)
IsDigitChar(c) == c \in Range(DigitChars)

\* str.upper()
upper(s) ==
    [i \in DOMAIN s |->
        IF IsLowerChar(s[i]) THEN UpperChars[IndexOf(s[i], LowerChars)] ELSE s[i]]

\* str.lower()
lower(s) ==
    [i \in DOMAIN s |->
        IF IsUpperChar(s[i]) THEN LowerChars[IndexOf(s[i], UpperChars)] ELSE s[i]]

\* str.isalpha(): non-empty and letters only
isalpha(s) == s # <<>> /\ \A i \in DOMAIN s : IsLowerChar(s[i]) \/ IsUpperChar(s[i])

\* str.isdigit(): non-empty and digits only
isdigit(s) == s # <<>> /\ \A i \in DOMAIN s : IsDigitChar(s[i])

\* int(part) of a string of digits
RECURSIVE int(_)
int(s) ==
    IF s = <<>> THEN 0
    ELSE 10 * int(SubSeq(s, 1, Len(s) - 1)) + (IndexOf(s[Len(s)], DigitChars) - 1)

\* "c" in s
Contains(s, c) == \E i \in DOMAIN s : s[i] = c

\* str.split(sep) for a one-character separator
RECURSIVE split(_, _)
split(s, sep) ==
    IF ~Contains(s, sep) THEN <<s>>
    ELSE LET i == CHOOSE k \in DOMAIN s :
                      s[k] = sep /\ \A j \in 1..(k - 1) : s[j] # sep
         IN  <<SubSeq(s, 1, i - 1)>> \o split(SubSeq(s, i + 1, Len(s)), sep)

\* str.lstrip(c) and str.rstrip(c) for a one-character set
RECURSIVE lstrip(_, _)
lstrip(s, c) == IF s # <<>> /\ s[1] = c THEN lstrip(Tail(s), c) ELSE s
RECURSIVE rstrip(_, _)
rstrip(s, c) ==
    IF s # <<>> /\ s[Len(s)] = c THEN rstrip(SubSeq(s, 1, Len(s) - 1), c) ELSE s

\* str.strip(): blanks removed at both ends
strip(s) == rstrip(lstrip(s, " "), " ")

\* str.replace(c, "")
remove(s, c) == SelectSeq(s, LAMBDA x : x # c)

-----------------------------------------------------------------------------
(* Country normalisation *)

REGION_TO_COUNTRY ==
    [k \in { <<"S","A","R","A","W","A","K">>,
             <<"K","C","H">>,
             <<"M","I","R","I">> } |-> "Malaysia"]

\* re.sub(r'(?<!^)(?=[A-Z])', ' ', s): a blank before every upper-case
\* letter that is not the first character
RECURSIVE split_camel_case(_)
split_camel_case(s) ==
    IF s = <<>> THEN <<>>
    ELSE LET n == Len(s)
             init == split_camel_case(SubSeq(s, 1, n - 1))
         IN  IF n > 1 /\ IsUpperChar(s[n])
             THEN init \o <<" ", s[n]>>
             ELSE init \o <<s[n]>>

\* The part of the pycountry catalogue the model carries: name, alpha-2 and
\* alpha-3 code of three countries, and the continent of each.
Catalog ==
    { [name |-> "Malaysia", spelled |-> <<"M","a","l","a","y","s","i","a">>,
       alpha_2 |-> <<"M","Y">>, alpha_3 |-> <<"M","Y","S">>, continent |-> "Asia"],
      [name |-> "Thailand", spelled |-> <<"T","h","a","i","l","a","n","d">>,
       alpha_2 |-> <<"T","H">>, alpha_3 |-> <<"T","H","A">>, continent |-> "Asia"],
      [name |-> "Namibia", spelled |-> <<"N","a","m","i","b","i","a">>,
       alpha_2 |-> <<"N","A">>, alpha_3 |-> <<"N","A","M">>, continent |-> "Africa"] }

CountryNames == {c.name : c \in Catalog}

LookupError == "LookupError"

\* pycountry.countries.lookup(raw).name: a case-insensitive match of the
\* name or of a code, LookupError when nothing matches
lookup(raw) ==
    LET k == lower(raw)
        hits == {c \in Catalog :
                    k = lower(c.spelled) \/ k = lower(c.alpha_2) \/ k = lower(c.alpha_3)}
    IN  IF hits = {} THEN LookupError ELSE (CHOOSE c \in hits : TRUE).name

\* process.extractOne(raw, names) is the library's answer, any name with a
\* score on either side of the threshold
FuzzyOutcomes == [best : CountryNames, score : {79, 80}]

\* IsMissing without the .lower(): only the spellings "na" and ""
IsMissingExactCase(raw) ==
    \/ raw = None
    \/ raw = <<>>
    \/ raw \in { <<"n","a">>, <<>> }

\* the early return of normalize_country
IsMissing(raw) ==
    \/ raw = None
    \/ raw = <<>>
    \/ lower(raw) \in { <<"n","a">>, <<>> }

normalize_country(raw, fuzzy) ==
    IF IsMissing(raw) THEN "Unknown"
    ELSE LET cut == strip(split(split(raw, "_")[1], "/")[1])
             spaced == split_camel_case(cut)
             raw_upper == upper(spaced)
         IN  IF raw_upper \in DOMAIN REGION_TO_COUNTRY
             THEN REGION_TO_COUNTRY[raw_upper]
             ELSE IF lookup(spaced) # LookupError
             THEN lookup(spaced)
             ELSE IF fuzzy.score >= 80 THEN fuzzy.best ELSE "Unknown"

country_to_continent(country) ==
    IF country = "Unknown" THEN "Unknown"
    ELSE IF \E c \in Catalog : c.name = country
    THEN (CHOOSE c \in Catalog : c.name = country).continent
    ELSE "Unknown"

-----------------------------------------------------------------------------
(* Header parser *)

\* YEAR_RE.fullmatch(part) with YEAR_RE = (19|20)\d{2}
YEAR_RE_fullmatch(part) ==
    /\ Len(part) = 4
    /\ SubSeq(part, 1, 2) \in { <<"1","9">>, <<"2","0">> }
    /\ IsDigitChar(part[3])
    /\ IsDigitChar(part[4])

Unknown == <<"U","n","k","n","o","w","n">>
Malaysia == <<"M","a","l","a","y","s","i","a">>

\* the loop over header.split("|"): the last matching part wins each field
RECURSIVE PipeScan(_, _, _)
PipeScan(parts, raw_country, year) ==
    IF parts = <<>> THEN [raw_country |-> raw_country, year |-> year]
    ELSE LET part == Head(parts)
         IN  IF YEAR_RE_fullmatch(part)
             THEN PipeScan(Tail(parts), raw_country, <<int(part)>>)
             ELSE IF isalpha(part) \/ Contains(part, "_")
             THEN PipeScan(Tail(parts), part, year)
             ELSE PipeScan(Tail(parts), raw_country, year)

\* the loop over header.split("/")
RECURSIVE SlashScan(_, _)
SlashScan(parts, year) ==
    IF parts = <<>> THEN year
    ELSE LET part == Head(parts)
         IN  IF isdigit(part)
             THEN SlashScan(Tail(parts),
                            IF Len(part) = 2 THEN <<2000 + int(part)>>
                                             ELSE <<int(part)>>)
             ELSE SlashScan(Tail(parts), year)

\* x or "Unknown" for a number: None and 0 are both false
YearOrUnknown(year) == IF year = NoInt \/ year[1] = 0 THEN Unknown ELSE year

\* x or "Unknown" for a string: None and "" are both false
RawOrUnknown(raw_country) ==
    IF raw_country = None \/ raw_country = <<>> THEN Unknown ELSE raw_country

\* raw_country and year as the two dialects leave them, before normalisation
ScanHeader(h) ==
    LET hd == strip(remove(h, ">"))
    IN  IF Contains(hd, "|")
        THEN PipeScan(split(hd, "|"), None, NoInt)
        ELSE IF Contains(hd, "/")
        THEN [raw_country |-> Malaysia,
              year |-> SlashScan(split(hd, "/"), NoInt)]
        ELSE [raw_country |-> None, year |-> NoInt]

parse_header(h, fuzzy) ==
    LET scan == ScanHeader(h)
    IN  [raw |-> RawOrUnknown(scan.raw_country),
         country |-> normalize_country(scan.raw_country, fuzzy),
         year |-> YearOrUnknown(scan.year)]

-----------------------------------------------------------------------------
(* parse_header on its own: one header in, one triple out *)

MaxSegments == 3

\* the segments the headers are put together from
HeaderSegments ==
    { <<"K","C","H","_","s","t","r","a","i","n">>,
      <<"K","c","h">>,
      <<"n","A">>,
      <<"T","h"," ">>,
      <<"2","0","1","5">>,
      <<"1","5">>,
      <<"0">>,
      <<"7">>,
      <<>> }

RECURSIVE Join(_, _)
Join(segs, seps) ==
    IF Len(segs) = 1 THEN segs[1]
    ELSE segs[1] \o <<seps[1]>> \o Join(Tail(segs), Tail(seps))

\* the headers of up to max segments, pipes and slashes between them
HeaderInputs(max) ==
    UNION { { Join(segs, seps) :
                segs \in [1..n -> HeaderSegments],
                seps \in [1..(n - 1) -> {"|", "/"}] } : n \in 1..max }

ParseHeader ==
    /\ parsed = <<>>
    /\ \E fuzzy \in FuzzyOutcomes : parsed' = <<parse_header(header, fuzzy)>>
    /\ UNCHANGED <<header, svars, mvars>>

-----------------------------------------------------------------------------
(* Sequence filter *)

MinLength == 90

\* an index of a Python slice, brought into 0..n
SliceIndex(i, n) ==
    IF i < 0 THEN (IF i + n < 0 THEN 0 ELSE i + n)
    ELSE IF i > n THEN n ELSE i

\* s[lo:hi]
PySlice(s, lo, hi) ==
    LET a == SliceIndex(lo, Len(s))
        b == SliceIndex(hi, Len(s))
    IN  IF a < b THEN SubSeq(s, a + 1, b) ELSE <<>>

\* the truth value of an optional number: None and 0 are false
Truthy(x) == x # NoInt /\ x[1] # 0

\* process_sequence with the window cut before the N runs are stripped
process_sequence_slice_first(seq, start_, stop_) ==
    LET up == upper(seq)
        sliced == IF Truthy(start_) \/ Truthy(stop_)
                  THEN PySlice(up,
                               IF Truthy(start_) THEN start_[1] - 1 ELSE 0,
                               IF Truthy(stop_) THEN stop_[1] ELSE Len(up))
                  ELSE up
        stripped == rstrip(lstrip(sliced, "N"), "N")
        L == Len(stripped) - (Len(stripped) % 3)
        framed == SubSeq(stripped, 1, L)
    IN  IF Len(framed) >= MinLength THEN framed ELSE None

process_sequence(seq, start_, stop_) ==
    LET stripped == rstrip(lstrip(upper(seq), "N"), "N")
        sliced == IF Truthy(start_) \/ Truthy(stop_)
                  THEN PySlice(stripped,
                               IF Truthy(start_) THEN start_[1] - 1 ELSE 0,
                               IF Truthy(stop_) THEN stop_[1] ELSE Len(stripped))
                  ELSE stripped
        L == Len(sliced) - (Len(sliced) % 3)
        framed == SubSeq(sliced, 1, L)
    IN  IF Len(framed) >= MinLength THEN framed ELSE None

-----------------------------------------------------------------------------
(* process_sequence on its own: one sequence and its coordinates in, the *)
(* trimmed sequence or None out                                          *)

MaxPad == 2
MaxExtra == 4
MaxCoord == 2

Bases == <<"A","C","G","T">>

\* n bases that begin and end with a base other than N, with an N inside
Core(n) ==
    [i \in 1..n |-> IF i = 3 /\ n > 3 THEN "N" ELSE Bases[(i % 4) + 1]]

Ns(n) == [i \in 1..n |-> "N"]

\* sequences in either case with up to pad Ns at each end and none or
\* MinLength - 2 to MinLength + extra bases between them, and 93 Ns
SequenceInputs(pad, extra) ==
    { Ns(MinLength + 3) } \cup
    UNION { { Ns(lead) \o Core(n) \o Ns(trail),
              lower(Ns(lead) \o Core(n) \o Ns(trail)) } :
            lead \in 0..pad, trail \in 0..pad,
            n \in {0} \cup ((MinLength - 2)..(MinLength + extra)) }

StartInputs == {NoInt} \cup { <<k>> : k \in (-MaxCoord)..MaxCoord }

StopInputs ==
    {NoInt} \cup { <<k>> : k \in (-MaxCoord)..MaxCoord }
            \cup { <<k>> : k \in MinLength..(MinLength + MaxExtra) }

ProcessSequence ==
    /\ trimmed = <<>>
    /\ trimmed' = <<process_sequence(rawSeq, start, stop)>>
    /\ UNCHANGED <<rawSeq, start, stop, hvars, mvars>>

-----------------------------------------------------------------------------
(* Task generation *)

RECURSIVE Flatten(_)
Flatten(ss) == IF ss = <<>> THEN <<>> ELSE Head(ss) \o Flatten(Tail(ss))

\* Series.unique(): the values in the order they first appear
RECURSIVE unique(_)
unique(s) ==
    IF s = <<>> THEN <<>>
    ELSE LET init == unique(SubSeq(s, 1, Len(s) - 1))
             x == s[Len(s)]
         IN  IF x \in Range(init) THEN init ELSE Append(init, x)

\* itertools.combinations(s, 2)
RECURSIVE combinations(_)
combinations(s) ==
    IF Len(s) < 2 THEN <<>>
    ELSE [i \in 1..(Len(s) - 1) |-> <<s[1], s[i + 1]>>] \o combinations(Tail(s))

\* countries = [c for c in df.country.unique() if c != "Unknown"]
Countries(recs) ==
    SelectSeq(unique([i \in DOMAIN recs |-> recs[i].country]),
              LAMBDA c : c # "Unknown")

\* df[df.country == c]: the positions of the rows of country c, in order
RowsOf(recs, c) ==
    SelectSeq([i \in DOMAIN recs |-> i], LAMBDA i : recs[i].country = c)

\* itertools.permutations(s, 2) in place of combinations: both directions
permutations(countries) ==
    Flatten([i \in DOMAIN countries |->
        SelectSeq([j \in DOMAIN countries |-> <<countries[i], countries[j]>>],
                  LAMBDA q : q[1] # q[2])])

\* itertools.combinations_with_replacement(s, 2): a row also meets itself
combinations_with_replacement(seqs) ==
    Flatten([i \in DOMAIN seqs |->
        [j \in 1..(Len(seqs) - i + 1) |-> <<seqs[i], seqs[i + j - 1]>>]])

\* the country pairs of the first loop
CountryPairs(countries) == combinations(countries)

\* the sequence pairs of one country in the second loop
WithinPairs(seqs) == combinations(seqs)

\* A task is (a, b, c1, c2, genetic_code, method, verbose); a and b are the
\* rows the two sequences are taken from, the three options are the same
\* in every task and left out.
CrossTasks(recs) ==
    LET cs == CountryPairs(Countries(recs))
    IN  Flatten([k \in DOMAIN cs |->
            LET s1 == RowsOf(recs, cs[k][1])
                s2 == RowsOf(recs, cs[k][2])
            IN  Flatten([i \in DOMAIN s1 |->
                    [j \in DOMAIN s2 |->
                        [a |-> s1[i], b |-> s2[j],
                         gA |-> cs[k][1], gB |-> cs[k][2]]]])])

WithinTasks(recs) ==
    LET cs == Countries(recs)
    IN  Flatten([k \in DOMAIN cs |->
            LET ps == WithinPairs(RowsOf(recs, cs[k]))
            IN  [i \in DOMAIN ps |->
                    [a |-> ps[i][1], b |-> ps[i][2],
                     gA |-> cs[k], gB |-> cs[k]]]])

GenerateTasks(recs) == CrossTasks(recs) \o WithinTasks(recs)

-----------------------------------------------------------------------------
(* KaKs_Calculator and its runner *)

\* Ka and Ks as KaKs_Calculator may print them; Ks is not checked to be
\* positive
RateValues == { <<2, 1>>, <<1, -1>> }

\* What one run of the program leaves behind: its exit status and its
\* output file (empty, without the Ka and Ks columns, with a Ka or Ks that
\* is no number, or a table with both)
OracleOutputs ==
    { [returncode |-> 0, out |-> k, Ka |-> 0, Ks |-> 0] :
        k \in {"empty", "no_column", "not_a_number"} }
    \cup { [returncode |-> 0, out |-> "table", Ka |-> v[1], Ks |-> v[2]] :
             v \in RateValues }
    \cup { [returncode |-> 1, out |-> "empty", Ka |-> 0, Ks |-> 0],
           [returncode |-> 1, out |-> "table", Ka |-> 2, Ks |-> 1] }

\* the exception subprocess.run raises when the executable is missing
Raised == <<"<raised>">>

\* run_kaks_worker with subprocess.run(check=True): a non-zero exit raises
run_kaks_worker_check(task, executable, o) ==
    IF ~executable \/ o.returncode # 0 THEN Raised
    ELSE IF o.out = "table" THEN <<task.gA, task.gB, o.Ka, o.Ks>>
    ELSE None

run_kaks_worker(task, executable, o) ==
    IF ~executable THEN Raised
    ELSE IF o.returncode # 0 THEN None
    ELSE IF o.out = "table" THEN <<task.gA, task.gB, o.Ka, o.Ks>>
    ELSE None

-----------------------------------------------------------------------------
(* Aggregation *)

\* Ka, Ks and their means are rationals num/den in lowest terms, den > 0
Abs(x) == IF x < 0 THEN -x ELSE x

RECURSIVE Gcd(_, _)
Gcd(a, b) == IF b = 0 THEN a ELSE Gcd(b, a % b)

Fraction(n, d) ==
    LET g == Gcd(Abs(n), Abs(d))
        sgn == IF d < 0 THEN -1 ELSE 1
    IN  [num |-> (sgn * n) \div g, den |-> (sgn * d) \div g]

\* math.inf
Infinity == [num |-> 1, den |-> 0]

\* what x / 0 raises
ZeroDivisionError == [num |-> 0, den |-> 0]

\* x / y
TrueDiv(x, y) ==
    IF y.num = 0 THEN ZeroDivisionError
    ELSE Fraction(x.num * y.den, x.den * y.num)

\* sum(v[k] for v in vals)
RECURSIVE Sum(_, _)
Sum(vals, k) == IF vals = <<>> THEN 0 ELSE Head(vals)[k] + Sum(Tail(vals), k)

\* sum(v[k] for v in vals) / len(vals)
Mean(vals, k) == TrueDiv(Fraction(Sum(vals, k), 1), Fraction(Len(vals), 1))

\* the ratio without the test for a zero mean Ks
RatioUnguarded(mean_ka, mean_ks) == TrueDiv(mean_ka, mean_ks)

\* ratio = math.inf if mean_ks == 0 else mean_ka / mean_ks
Ratio(mean_ka, mean_ks) ==
    IF mean_ks = Fraction(0, 1) THEN Infinity ELSE TrueDiv(mean_ka, mean_ks)

\* agg.setdefault((r[0], r[1]), []).append((r[2], r[3])) for every r that is
\* not None; the dict keeps its keys in the order they were first set
RECURSIVE Aggregate(_)
Aggregate(res) ==
    IF res = <<>> THEN <<>>
    ELSE LET init == Aggregate(SubSeq(res, 1, Len(res) - 1))
             r == res[Len(res)]
         IN  IF r = None THEN init
             ELSE IF \E g \in DOMAIN init : init[g].key = <<r[1], r[2]>>
             THEN [g \in DOMAIN init |->
                      IF init[g].key = <<r[1], r[2]>>
                      THEN [init[g] EXCEPT !.vals = Append(@, <<r[3], r[4]>>)]
                      ELSE init[g]]
             ELSE Append(init, [key |-> <<r[1], r[2]>>,
                                vals |-> << <<r[3], r[4]>> >>])

\* the row of one group
Base(g) ==
    [Group_A |-> g.key[1],
     Group_B |-> g.key[2],
     Continent_A |-> country_to_continent(g.key[1]),
     Continent_B |-> country_to_continent(g.key[2]),
     mean_Ka |-> Mean(g.vals, 1),
     mean_Ks |-> Mean(g.vals, 2),
     KaKs |-> Ratio(Mean(g.vals, 1), Mean(g.vals, 2)),
     pairs |-> Len(g.vals)]

\* the row, and its mirror when the two groups differ
EmitRows(g) ==
    LET base == Base(g)
    IN  IF base.Group_A # base.Group_B
        THEN <<base,
               [base EXCEPT !.Group_A = base.Group_B,
                            !.Group_B = base.Group_A,
                            !.Continent_A = base.Continent_B,
                            !.Continent_B = base.Continent_A]>>
        ELSE <<base>>

BuildRows(agg) == Flatten([g \in DOMAIN agg |-> EmitRows(agg[g])])

\* a division by zero anywhere in the loop ends the run with a traceback
Raises(rs) ==
    \E i \in DOMAIN rs :
        ZeroDivisionError \in {rs[i].mean_Ka, rs[i].mean_Ks, rs[i].KaKs}

\* main() without the exit on an empty agg
NeverExit(agg) == FALSE

\* if not agg: sys.exit(1)
NoUsableResults(agg) == agg = <<>>

\* if df.empty: sys.exit(1)
NoUsableSequences(recs) == recs = <<>>

-----------------------------------------------------------------------------
(* main() *)

MaxRecords == 3
PoolSize == 2

\* the headers and sequences the input file is put together from
PipelineHeaders ==
    { <<"n","A","|","2","0","1","5">>,
      <<"7">>,
      <<"K","c","h","|","2","0","1","5">>,
      <<"T","h","|","1","9","9","9">>,
      <<"x","/","1","5">>,
      <<"Z","z","_","1","|","2","0","1","5">> }

PipelineSequences ==
    { Ns(1) \o Core(MinLength + 1) \o Ns(1), Ns(MinLength + 3) }

\* a place of the result list imap has not filled yet
Unset == <<"<unset>">>

\* The raw country token is absent, empty or "na" in some letter case.
\* Kept with each record for the properties; the program does not store it.
TokenMissing(tok) ==
    \/ tok = None
    \/ tok = <<>>
    \/ Len(tok) = 2 /\ tok[1] \in {"n", "N"} /\ tok[2] \in {"a", "A"}

Min(S) == CHOOSE x \in S : \A y \in S : x <= y

Queued == {i \in DOMAIN tasks : status[i] = "queued"}
Running == {i \in DOMAIN tasks : status[i] = "running"}

\* pool.imap_unordered: the results in the order the workers finish
DeliverAsFinished(res, i, r) ==
    [res EXCEPT ![Min({j \in DOMAIN res : res[j] = Unset})] = r]

\* pool.imap hands the results back in the order of the tasks
Deliver(res, i, r) == [res EXCEPT ![i] = r]

\* the loop over SeqIO.parse: one record read, kept unless the filter
\* rejects its sequence.  Nothing after the filter looks inside a sequence,
\* so a record keeps the length of its sequence in place of the text.
\* The run is one without --start and --stop.
ReadRecord ==
    /\ pc = "read"
    /\ Len(records) < MaxRecords
    /\ \E h \in PipelineHeaders, fuzzy \in FuzzyOutcomes, s \in PipelineSequences :
          LET p == parse_header(h, fuzzy)
              seq == process_sequence(s, NoInt, NoInt)
          IN  records' =
                IF seq = None THEN records
                ELSE Append(records,
                            [id |-> Len(records) + 1,
                             seq |-> Len(seq),
                             country |-> p.country,
                             raw_missing |-> TokenMissing(ScanHeader(h).raw_country)])
    /\ UNCHANGED <<pc, installed, tasks, status, outcome,
                   calls, results, rows, csvWrites, fastaWrites, hvars, svars>>

\* the end of the input: the empty check, then the task list
EndOfInput ==
    /\ pc = "read"
    /\ IF NoUsableSequences(records)
       THEN /\ pc' = "exit1"
            /\ UNCHANGED <<tasks, status, outcome, calls, results>>
       ELSE LET ts == GenerateTasks(records)
            IN  /\ pc' = "pool"
                /\ tasks' = ts
                /\ status' = [i \in DOMAIN ts |-> "queued"]
                /\ outcome' = [i \in DOMAIN ts |-> Unset]
                /\ calls' = [i \in DOMAIN ts |-> 0]
                /\ results' = [i \in DOMAIN ts |-> Unset]
    /\ UNCHANGED <<installed, records, rows, csvWrites,
                   fastaWrites, hvars, svars>>

\* a free worker takes the next task of the queue and runs KaKs_Calculator
StartTask ==
    /\ pc = "pool"
    /\ Queued # {}
    /\ Cardinality(Running) < PoolSize
    /\ LET i == Min(Queued)
       IN  /\ status' = [status EXCEPT ![i] = "running"]
           /\ calls' = [calls EXCEPT ![i] = @ + 1]
    /\ UNCHANGED <<pc, installed, records, tasks, outcome,
                   results, rows, csvWrites, fastaWrites, hvars, svars>>

\* a running worker returns; an exception in a worker ends main()
FinishTask ==
    /\ pc = "pool"
    /\ \E i \in Running, o \in OracleOutputs :
          LET r == run_kaks_worker(tasks[i], installed, o)
          IN  /\ status' = [status EXCEPT ![i] = "finished"]
              /\ outcome' = [outcome EXCEPT ![i] = r]
              /\ IF r = Raised
                 THEN pc' = "crashed" /\ results' = results
                 ELSE pc' = pc /\ results' = Deliver(results, i, r)
    /\ UNCHANGED <<installed, records, tasks, calls, rows,
                   csvWrites, fastaWrites, hvars, svars>>

\* after the pool: group, exit if nothing is usable, else write the table
\* and, when --save_trimmed_fasta was given, the trimmed FASTA (the option
\* is read here and nowhere else, so it is drawn here)
AggregateAndWrite ==
    /\ pc = "pool"
    /\ \A i \in DOMAIN tasks : status[i] = "finished"
    /\ LET agg == Aggregate(results)
           rs == BuildRows(agg)
       IN  IF NoUsableResults(agg)
           THEN pc' = "exit1" /\ UNCHANGED <<rows, csvWrites, fastaWrites>>
           ELSE IF Raises(rs)
           THEN pc' = "crashed" /\ UNCHANGED <<rows, csvWrites, fastaWrites>>
           ELSE /\ pc' = "done"
                /\ rows' = rs
                /\ csvWrites' = csvWrites + 1
                /\ \E save_trimmed_fasta \in BOOLEAN :
                      fastaWrites' =
                        IF save_trimmed_fasta THEN fastaWrites + 1 ELSE fastaWrites
    /\ UNCHANGED <<installed, records, tasks, status,
                   outcome, calls, results, hvars, svars>>

-----------------------------------------------------------------------------
(* Specifications *)

MainIdle ==
    /\ pc = "idle"
    /\ installed = TRUE
    /\ records = <<>>
    /\ tasks = <<>>
    /\ status = <<>>
    /\ outcome = <<>>
    /\ calls = <<>>
    /\ results = <<>>
    /\ rows = <<>>
    /\ csvWrites = 0
    /\ fastaWrites = 0

HeaderIdle == header = <<>> /\ parsed = <<>>

SeqIdle == rawSeq = <<>> /\ start = NoInt /\ stop = NoInt /\ trimmed = <<>>

Init ==
    /\ pc = "read"
    /\ installed \in BOOLEAN
    /\ records = <<>>
    /\ tasks = <<>>
    /\ status = <<>>
    /\ outcome = <<>>
    /\ calls = <<>>
    /\ results = <<>>
    /\ rows = <<>>
    /\ csvWrites = 0
    /\ fastaWrites = 0
    /\ HeaderIdle
    /\ SeqIdle

Next == ReadRecord \/ EndOfInput \/ StartTask \/ FinishTask \/ AggregateAndWrite

Spec == Init /\ [][Next]_vars

InitHeader ==
    /\ header \in HeaderInputs(MaxSegments)
    /\ parsed = <<>>
    /\ MainIdle
    /\ SeqIdle

NextHeader == ParseHeader

SpecHeader == InitHeader /\ [][NextHeader]_vars

InitSeq ==
    /\ rawSeq \in SequenceInputs(MaxPad, MaxExtra)
    /\ start \in StartInputs
    /\ stop \in StopInputs
    /\ trimmed = <<>>
    /\ MainIdle
    /\ HeaderIdle

NextSeq == ProcessSequence

SpecSeq == InitSeq /\ [][NextSeq]_vars

-----------------------------------------------------------------------------
(* Properties *)

\* the task list has just been generated: no task has been handed to a
\* worker yet (no action changes records or tasks after that)
Generated == pc = "pool" /\ \A k \in DOMAIN tasks : status[k] = "queued"

\* the rows of the records that take part: every country but "Unknown"
Known == {i \in DOMAIN records : records[i].country # "Unknown"}

KnownCountries == {records[i].country : i \in Known}

Size(c) == Cardinality({i \in DOMAIN records : records[i].country = c})

RECURSIVE SizeTotal(_)
SizeTotal(C) ==
    IF C = {} THEN 0
    ELSE LET c == CHOOSE x \in C : TRUE IN Size(c) + SizeTotal(C \ {c})

\* sum over i < j of n_i * n_j
RECURSIVE CrossTotal(_)
CrossTotal(C) ==
    IF C = {} THEN 0
    ELSE LET c == CHOOSE x \in C : TRUE
         IN  Size(c) * SizeTotal(C \ {c}) + CrossTotal(C \ {c})

\* sum over i of n_i * (n_i - 1) / 2
RECURSIVE WithinTotal(_)
WithinTotal(C) ==
    IF C = {} THEN 0
    ELSE LET c == CHOOSE x \in C : TRUE
         IN  (Size(c) * (Size(c) - 1)) \div 2 + WithinTotal(C \ {c})

\* the tasks that pair rows i and j
TasksOf(i, j) == {k \in DOMAIN tasks : {tasks[k].a, tasks[k].b} = {i, j}}

\* six records in three countries of 2, 3 and 1 records
ExampleRecords ==
    [i \in 1..6 |->
        [id |-> i, seq |-> MinLength, raw_missing |-> FALSE,
         country |-> IF i <= 2 THEN "Malaysia"
                     ELSE IF i <= 5 THEN "Thailand" ELSE "Namibia"]]

\* the task list of the example
ExampleTasks == GenerateTasks(ExampleRecords)

\* C1: in the task list as generated, every two distinct rows of known
\* countries are paired by exactly one task, labelled with the countries of its two rows, whether the countries
\* differ or not; no task pairs a row with itself or with a row of
\* "Unknown"; the number of tasks is the sum over i<j of n_i*n_j plus the
\* sum over i of n_i*(n_i-1)/2; groups of 2, 3 and 1 records give 15 tasks.
C1_TaskGeneration ==
    Generated =>
        /\ \A i \in Known : \A j \in Known :
              i < j => /\ Cardinality(TasksOf(i, j)) = 1
                       /\ \A k \in TasksOf(i, j) :
                             /\ tasks[k].gA = records[tasks[k].a].country
                             /\ tasks[k].gB = records[tasks[k].b].country
        /\ \A k \in DOMAIN tasks :
              /\ tasks[k].a # tasks[k].b
              /\ {tasks[k].a, tasks[k].b} \subseteq Known
        /\ Len(tasks) = CrossTotal(KnownCountries) + WithinTotal(KnownCountries)
        /\ \A c \in KnownCountries :
              Size(c) = 1 => ~\E k \in DOMAIN tasks :
                                 tasks[k].gA = c /\ tasks[k].gB = c
        /\ Len(ExampleTasks) = 15

\* two records of one country and one of another: two cross tasks and one
\* within the first country
C1_Witness ==
    /\ pc = "pool"
    /\ \E c \in KnownCountries : \E d \in KnownCountries :
          c # d /\ Size(c) = 2 /\ Size(d) = 1
    /\ Len(tasks) = 3
    /\ \E k \in DOMAIN tasks : tasks[k].gA = tasks[k].gB

\* a worker's return value that is a result (gA, gB, ka, ks)
IsResult(r) == Len(r) = 4

Succeeded == {k \in DOMAIN tasks : IsResult(outcome[k])}

\* C2: a record whose country is "Unknown" is in no task, and so is every
\* record whose raw country token is absent, empty or "na" in any letter
\* case, which always has the country "Unknown"; no task, worker result,
\* collected result or output row has "Unknown" as either group.
C2_UnknownExcluded ==
    /\ \A i \in DOMAIN records :
          records[i].raw_missing => records[i].country = "Unknown"
    /\ \A k \in DOMAIN tasks :
          /\ records[tasks[k].a].country # "Unknown"
          /\ records[tasks[k].b].country # "Unknown"
          /\ ~records[tasks[k].a].raw_missing
          /\ ~records[tasks[k].b].raw_missing
          /\ tasks[k].gA # "Unknown"
          /\ tasks[k].gB # "Unknown"
          /\ IsResult(outcome[k]) =>
                outcome[k][1] # "Unknown" /\ outcome[k][2] # "Unknown"
          /\ IsResult(results[k]) =>
                results[k][1] # "Unknown" /\ results[k][2] # "Unknown"
    /\ \A n \in DOMAIN rows :
          rows[n].Group_A # "Unknown" /\ rows[n].Group_B # "Unknown"

\* a finished run with a record without a country token, a record whose
\* token matched nothing, and two records that were compared
C2_Witness ==
    /\ pc = "done"
    /\ \E i \in DOMAIN records : records[i].raw_missing
    /\ Len(records) = MaxRecords
    /\ rows # <<>>

\* the successful tasks labelled (gA, gB)
SucceededAs(gA, gB) ==
    {k \in Succeeded : outcome[k][1] = gA /\ outcome[k][2] = gB}

\* the sum of Ka (n = 3) or Ks (n = 4) over a set of successful tasks
RECURSIVE RateTotal(_, _)
RateTotal(K, n) ==
    IF K = {} THEN 0
    ELSE LET k == CHOOSE x \in K : TRUE
         IN  outcome[k][n] + RateTotal(K \ {k}, n)

Labels == {<<outcome[k][1], outcome[k][2]>> : k \in Succeeded}

\* C3: in the table written, every label with a successful result has a
\* row whose pairs is the number of successful results of that label, whose
\* mean_Ka and mean_Ks are their sums divided by that number, and whose
\* Ka/Ks is infinity when the Ks add up to 0 and the quotient of the two
\* sums otherwise; the run never ends in a division by zero (it ends in an
\* exception only when KaKs_Calculator is not installed).
C3_Aggregation ==
    /\ pc = "crashed" => ~installed
    /\ pc = "done" =>
          \A l \in Labels :
              LET K == SucceededAs(l[1], l[2])
                  n == Cardinality(K)
              IN  \E r \in DOMAIN rows :
                      /\ rows[r].Group_A = l[1]
                      /\ rows[r].Group_B = l[2]
                      /\ rows[r].pairs = n
                      /\ rows[r].mean_Ka = Fraction(RateTotal(K, 3), n)
                      /\ rows[r].mean_Ks = Fraction(RateTotal(K, 4), n)
                      /\ rows[r].KaKs =
                            IF RateTotal(K, 4) = 0 THEN Infinity
                            ELSE Fraction(RateTotal(K, 3), RateTotal(K, 4))

\* a table with a row of two pairs whose Ks cancel (ratio infinity), and a
\* row with a finite ratio
C3_Witness ==
    /\ pc = "done"
    /\ \E r \in DOMAIN rows :
          rows[r].pairs = 2 /\ rows[r].KaKs = Infinity /\ rows[r].mean_Ka.den = 2
    /\ \E r \in DOMAIN rows : rows[r].KaKs.den # 0

RowsOfLabel(A, B) ==
    {r \in DOMAIN rows : rows[r].Group_A = A /\ rows[r].Group_B = B}

\* C4: the task list as generated has no two tasks that carry the two
\* directions of one pair of countries; in the table written, for A # B there is a row (A, B) exactly if there is a
\* row (B, A), the two agree in mean_Ka, mean_Ks, Ka/Ks and pairs and have
\* the continents swapped, every same-country label with a successful
\* result has exactly one row, and no (Group_A, Group_B) has two rows.
C4_SymmetricTable ==
    /\ Generated =>
          \A k \in DOMAIN tasks : \A m \in DOMAIN tasks :
              tasks[k].gA # tasks[k].gB =>
                  ~(tasks[m].gA = tasks[k].gB /\ tasks[m].gB = tasks[k].gA)
    /\ pc = "done" =>
          /\ \A r \in DOMAIN rows :
                /\ Cardinality(RowsOfLabel(rows[r].Group_A, rows[r].Group_B)) = 1
                /\ rows[r].Continent_A = country_to_continent(rows[r].Group_A)
                /\ rows[r].Continent_B = country_to_continent(rows[r].Group_B)
                /\ rows[r].Group_A # rows[r].Group_B =>
                      \E q \in DOMAIN rows :
                          /\ rows[q].Group_A = rows[r].Group_B
                          /\ rows[q].Group_B = rows[r].Group_A
                          /\ rows[q].Continent_A = rows[r].Continent_B
                          /\ rows[q].Continent_B = rows[r].Continent_A
                          /\ rows[q].mean_Ka = rows[r].mean_Ka
                          /\ rows[q].mean_Ks = rows[r].mean_Ks
                          /\ rows[q].KaKs = rows[r].KaKs
                          /\ rows[q].pairs = rows[r].pairs
          /\ \A l \in Labels :
                l[1] = l[2] => Cardinality(RowsOfLabel(l[1], l[2])) = 1

\* a table with a pair of countries of two continents and a same-country
\* row
C4_Witness ==
    /\ pc = "done"
    /\ \E r \in DOMAIN rows :
          /\ rows[r].Group_A # rows[r].Group_B
          /\ rows[r].Continent_A # rows[r].Continent_B
    /\ \E r \in DOMAIN rows : rows[r].Group_A = rows[r].Group_B

\* the run came to its end after the pool
PoolOver == pc \in {"done", "exit1"} /\ records # <<>>

\* what the worker returns for every output that is a failure
FailureReturns ==
    { run_kaks_worker([a |-> 1, b |-> 2, gA |-> "Malaysia", gB |-> "Thailand"],
                      TRUE, o) :
        o \in {x \in OracleOutputs : x.returncode # 0 \/ x.out # "table"} }

\* C5: a non-zero exit status, an empty output file, one without the Ka
\* and Ks columns or one with a value that is no number makes the worker
\* return None; with KaKs_Calculator installed the run never ends in an
\* exception; no task is run twice, and when the run ends every task has
\* been run once; a task that returned None is in no collected result, and
\* the pairs of every row is the number of tasks of its two countries that
\* succeeded.
C5_FailureIsolated ==
    /\ FailureReturns = {None}
    /\ installed => pc # "crashed"
    /\ \A k \in DOMAIN tasks : calls[k] <= 1
    /\ PoolOver =>
          /\ \A k \in DOMAIN tasks : calls[k] = 1 /\ status[k] = "finished"
          /\ \A k \in DOMAIN tasks : outcome[k] = None => results[k] = None
    /\ pc = "done" =>
          \A r \in DOMAIN rows :
              rows[r].pairs =
                  Cardinality({k \in Succeeded :
                      {<<tasks[k].gA, tasks[k].gB>>, <<tasks[k].gB, tasks[k].gA>>}
                          \cap {<<rows[r].Group_A, rows[r].Group_B>>} # {}})

\* a finished run in which one task of a label failed and another of the
\* same label succeeded
C5_Witness ==
    /\ pc = "done"
    /\ \E k \in DOMAIN tasks : \E m \in DOMAIN tasks :
          /\ outcome[k] = None
          /\ IsResult(outcome[m])
          /\ tasks[k].gA = tasks[m].gA
          /\ tasks[k].gB = tasks[m].gB

\* C6: nothing is written before the run ends; a run that ends with a
\* non-zero status (sys.exit(1) or an exception) has written neither file
\* and has no record or no successful task; a run that ends with status 0
\* has records and a successful task, has written the table exactly once,
\* and every task had finished by then.
C6_FatalOrWritten ==
    /\ pc \in {"read", "pool", "exit1", "crashed"} =>
          csvWrites = 0 /\ fastaWrites = 0
    /\ pc \in {"exit1", "crashed"} => (records = <<>> \/ Succeeded = {})
    /\ pc = "done" =>
          /\ records # <<>>
          /\ Succeeded # {}
          /\ csvWrites = 1
          /\ fastaWrites <= 1
          /\ \A k \in DOMAIN tasks : status[k] = "finished"
          /\ rows # <<>>

\* a run with records and tasks that exits because every task failed
C6_Witness ==
    /\ pc = "exit1"
    /\ Len(tasks) >= 2
    /\ installed
    /\ \A k \in DOMAIN tasks : outcome[k] = None

\* the (Ka, Ks) of the successful tasks of one label, in task order
ValsInTaskOrder(key) ==
    LET idx == SelectSeq([i \in DOMAIN tasks |-> i],
                         LAMBDA i : /\ IsResult(outcome[i])
                                    /\ <<outcome[i][1], outcome[i][2]>> = key)
    IN  [j \in DOMAIN idx |-> <<outcome[idx[j]][3], outcome[idx[j]][4]>>]

\* C7: whatever the order in which the workers finish, place k of the
\* result list holds nothing or what task k returned; so the groups hold
\* their values in the order of the tasks, and the table written is the
\* table of the tasks' return values taken in task order.
C7_OrderIndependent ==
    /\ \A k \in DOMAIN tasks : results[k] = Unset \/ results[k] = outcome[k]
    /\ pc = "done" =>
          LET agg == Aggregate(results)
          IN  /\ \A g \in DOMAIN agg : agg[g].vals = ValsInTaskOrder(agg[g].key)
              /\ rows = BuildRows(Aggregate(outcome))

\* a later task has finished with a result while an earlier one still runs
C7_Witness ==
    /\ pc = "pool"
    /\ \E i \in DOMAIN tasks : \E j \in DOMAIN tasks :
          /\ i < j
          /\ status[i] = "running"
          /\ status[j] = "finished"
          /\ IsResult(results[j])

\* the window of the stripped, upper-cased sequence
Window ==
    LET stripped == rstrip(lstrip(upper(rawSeq), "N"), "N")
    IN  IF Truthy(start) \/ Truthy(stop)
        THEN PySlice(stripped,
                     IF Truthy(start) THEN start[1] - 1 ELSE 0,
                     IF Truthy(stop) THEN stop[1] ELSE Len(stripped))
        ELSE stripped

\* C8: an accepted sequence has a length that is a multiple of 3 and at
\* least 90, and is the window of the stripped upper-cased input without
\* its last 0, 1 or 2 bases; the input is rejected exactly when that would
\* leave fewer than 90 bases; 93 Ns are rejected.
C8_SequenceFilter ==
    trimmed # <<>> =>
        LET r == trimmed[1]
            w == Window
        IN  /\ r # None =>
                  /\ Len(r) % 3 = 0
                  /\ Len(r) >= 90
                  /\ Len(w) - Len(r) \in {0, 1, 2}
                  /\ r = SubSeq(w, 1, Len(r))
            /\ r = None <=> Len(w) - (Len(w) % 3) < 90
            /\ rawSeq = Ns(93) => r = None

\* an accepted lower-case sequence with Ns at both ends, a start coordinate
\* and two bases dropped for the reading frame
C8_Witness ==
    /\ trimmed # <<>>
    /\ trimmed[1] # None
    /\ rawSeq[1] = "n"
    /\ rawSeq[Len(rawSeq)] = "n"
    /\ Truthy(start)
    /\ start[1] > 1
    /\ Len(Window) - Len(trimmed[1]) = 2

KCH_strain_2015 ==
    <<"K","C","H","_","s","t","r","a","i","n","|","2","0","1","5">>

\* C9: the header "KCH_strain|2015" parses to the raw token "KCH", the
\* country "Malaysia" and the year 2015.
C9_RegionHeader ==
    (header = KCH_strain_2015 /\ parsed # <<>>) =>
        parsed[1] = [raw |-> <<"K","C","H">>, country |-> "Malaysia",
                     year |-> <<2015>>]

\* the purely numeric segments of a slash-delimited header
NumericSegments ==
    LET parts == split(strip(remove(header, ">")), "/")
    IN  {parts[i] : i \in {j \in DOMAIN parts : isdigit(parts[j])}}

\* C10: for a header with a slash and no pipe the raw country token is the
\* default region, and the year is 2000+d for a two-digit segment d or the
\* value of a numeric segment of another length, and "Unknown" only when
\* the header has no numeric segment.
C10_SlashHeader ==
    (parsed # <<>> /\ Contains(header, "/") /\ ~Contains(header, "|")) =>
        /\ parsed[1].raw = Malaysia
        /\ NumericSegments = {} => parsed[1].year = Unknown
        /\ NumericSegments # {} =>
              \E part \in NumericSegments :
                  parsed[1].year =
                      <<IF Len(part) = 2 THEN 2000 + int(part) ELSE int(part)>>

====
